---- MODULE Spec2Model ----
(***************************************************************************)
(* Model of movie_recs_ml.py: a straight-line batch job that loads movie   *)
(* ratings from a document store, splits them, fits an ALS model, prints   *)
(* its RMSE, computes top-N recommendation tables and overwrites the       *)
(* user_recommendations collection with the all-users table.               *)
(*                                                                         *)
(* The script's statements are the steps of one sequential process (pc).   *)
(* The library calls it makes are modelled by what they do to the data the *)
(* script holds; the numeric result of the ALS optimisation is opaque and  *)
(* is a nondeterministic choice (the outcome o) among rank-1 factors.      *)
(*                                                                         *)
(* Numbers: a rating label is an integer number of stars; a predicted      *)
(* rating is an IEEE single-precision value [s, e, m] (sign, biased        *)
(* exponent, 23-bit mantissa); after the cast it is a double-precision     *)
(* value [s, e, mhi, mlo] (52-bit mantissa kept as its top 23 and low 29   *)
(* bits).  Values are decoded in half units (2 * value).                   *)
(***************************************************************************)
EXTENDS Integers, Sequences, FiniteSets, Bags, TLC

\* ---------------------------------------------------------------- bounds
MaxUsers == 3
MaxMovies == 12
MaxRows == 12
MaxSeed == 2
MaxOutcome == 2
MaxRuns == 2
MaxOffset == 2

\* ------------------------------------------------------ program constants
NumRecs == 10
SubsetLimit == 3
TrainPercent == 80
ShowRows == 20
AppName == "MovieRatings"
ExecutorMemory == "4g"
LogLevel == "WARN"
InputCollection == "movie_ratings"
OutputCollection == "user_recommendations"
ColdStartStrategy == "drop"
RmseLabel == "Root-mean-square error = "

\* ------------------------------------------------------------- arithmetic
Min(a, b) == IF a < b THEN a ELSE b

Abs(x) == IF x < 0 THEN 0 - x ELSE x

RECURSIVE Pow2(_)
Pow2(n) == IF n = 0 THEN 1 ELSE 2 * Pow2(n - 1)

\* floor(log2(n)) for n >= 1
RECURSIVE Log2(_)
Log2(n) == IF n < 2 THEN 0 ELSE 1 + Log2(n \div 2)

\* --------------------------------------------------------- floating point
\* single-precision encoding of the value h/2 (h an integer)
Float32(h) ==
  IF h = 0 THEN [s |-> 0, e |-> 0, m |-> 0]
  ELSE LET a == Abs(h)
           k == Log2(a)
       IN [s |-> IF h < 0 THEN 1 ELSE 0,
           e |-> 127 + k - 1,
           m |-> (a - Pow2(k)) * Pow2(23 - k)]

NaN32 == [s |-> 0, e |-> 255, m |-> Pow2(22)]

IsNaN32(f) == f.e = 255 /\ f.m # 0

\* a < b on single-precision values (neither is NaN); -0 equals +0
Float32Less(a, b) ==
  IF a.e = 0 /\ a.m = 0 /\ b.e = 0 /\ b.m = 0 THEN FALSE
  ELSE IF a.s # b.s THEN a.s = 1
  ELSE IF a.s = 0
       THEN a.e < b.e \/ (a.e = b.e /\ a.m < b.m)
       ELSE b.e < a.e \/ (a.e = b.e /\ b.m < a.m)

\* cast(FloatType -> DoubleType): exact widening.  A subnormal float
\* m * 2^-149 is a normal double: its leading bit becomes the hidden bit.
FloatToDouble(f) ==
  IF f.e = 0 /\ f.m = 0 THEN [s |-> f.s, e |-> 0, mhi |-> 0, mlo |-> 0]
  ELSE IF f.e = 0
       THEN LET k == Log2(f.m)
            IN [s |-> f.s, e |-> k - 149 + 1023,
                mhi |-> (f.m - Pow2(k)) * Pow2(23 - k), mlo |-> 0]
  ELSE IF f.e = 255 THEN [s |-> f.s, e |-> 2047, mhi |-> f.m, mlo |-> 0]
  ELSE [s |-> f.s, e |-> f.e - 127 + 1023, mhi |-> f.m, mlo |-> 0]

IsNaN64(d) == d.e = 2047 /\ (d.mhi # 0 \/ d.mlo # 0)

\* a < b on double-precision values (neither is NaN)
DoubleLess(a, b) ==
  LET magLess(x, y) == \/ x.e < y.e
                       \/ x.e = y.e /\ x.mhi < y.mhi
                       \/ x.e = y.e /\ x.mhi = y.mhi /\ x.mlo < y.mlo
      zero(x) == x.e = 0 /\ x.mhi = 0 /\ x.mlo = 0
  IN IF zero(a) /\ zero(b) THEN FALSE
     ELSE IF a.s # b.s THEN a.s = 1
     ELSE IF a.s = 0 THEN magLess(a, b) ELSE magLess(b, a)

\* 2 * value of a double that is a multiple of 0.5
DoubleHalves(d) ==
  IF d.e = 0 THEN 0
  ELSE LET sh == d.e - 1023 + 1
           mag == IF sh >= 0 THEN ((Pow2(23) + d.mhi) * Pow2(sh)) \div Pow2(23)
                  ELSE (Pow2(23) + d.mhi) \div Pow2(23 - sh)
       IN IF d.s = 1 THEN 0 - mag ELSE mag

\* ------------------------------------------------------------------ tables
\* A table of rating records is a sequence; a row is known by its position.
RowCounts == {0, 2, 5, MaxRows}

UserCounts == {MaxUsers}

MovieCounts == {3, MaxMovies}

MkTable(n, nu, nm) ==
  [k \in 1..n |-> [user_id  |-> ((k - 1) % nu) + 1,
                   movie_id |-> ((k - 1) % nm) + 1,
                   rating   |-> ((2 * k) % 5) + 1]]

Tables == {MkTable(n, nu, nm) : n \in RowCounts, nu \in UserCounts, nm \in MovieCounts}

\* A collection of the store is a bag of documents.
\* save(): one document per row of the recommendation table
Documents(recs) ==
  SetToBag({[user_id |-> u, recommendations |-> recs[u]] : u \in DOMAIN recs})

\* recommendation documents left in the output collection by an earlier job
StaleCollection ==
  SetToBag({[user_id |-> u,
             recommendations |-> << [movie_id |-> 1, rating |-> FloatToDouble(Float32(9))] >>]
              : u \in {1, MaxUsers + 1}})

\* what another client of the store writes to the output collection
ExternalCollection ==
  SetToBag({[user_id |-> MaxUsers + 2,
             recommendations |-> << [movie_id |-> 2, rating |-> FloatToDouble(Float32(4))] >>]})

UsersOf(tbl, rows) == {tbl[k].user_id : k \in rows}

MoviesOf(tbl, rows) == {tbl[k].movie_id : k \in rows}

\* df.select('user_id', 'movie_id', 'rating')
Select(tbl) ==
  [k \in DOMAIN tbl |-> [user_id |-> tbl[k].user_id,
                         movie_id |-> tbl[k].movie_id,
                         rating |-> tbl[k].rating]]

\* ------------------------------------------------------------ randomSplit
\* The uniform draw in [0, 100) of row k under the seed the call picked.
Draw(seed, k) == (seed * (5 * k * k + 15 * k + 4)) % 100

\* randomSplit([0.8, 0.2]): cell j keeps the rows whose draw lies in
\* [lb_j, ub_j) of the cumulative normalised weights 0, 0.8, 1.0.
TrainingRows(tbl, seed) == {k \in DOMAIN tbl : 0 <= Draw(seed, k) /\ Draw(seed, k) < TrainPercent}

\* variant: the test set drawn as an independent 20% sample
TestRowsIndependent(tbl, seed) == {k \in DOMAIN tbl : Draw(seed, k) < 100 - TrainPercent}

TestRows(tbl, seed) == {k \in DOMAIN tbl : TrainPercent <= Draw(seed, k) /\ Draw(seed, k) < 100}

\* -------------------------------------------------------------------- ALS
\* Learned rank-1 latent factors; which numbers come out is the opaque
\* result of the optimisation, indexed by the outcome o.
UserFactor(o, u) == ((u + 2 * o) % 7) - 3

ItemFactor(o, i) == (i * o) % 17

\* variant: the estimator is given every loaded row
FitAllRows(tbl, rows, o) ==
  [userFactors |-> [u \in UsersOf(tbl, DOMAIN tbl) |-> UserFactor(o, u)],
   itemFactors |-> [i \in MoviesOf(tbl, DOMAIN tbl) |-> ItemFactor(o, i)]]

\* als.fit(training): one factor per user and per item seen in training
Fit(tbl, rows, o) ==
  [userFactors |-> [u \in UsersOf(tbl, rows) |-> UserFactor(o, u)],
   itemFactors |-> [i \in MoviesOf(tbl, rows) |-> ItemFactor(o, i)]]

NoModel == [userFactors |-> << >>, itemFactors |-> << >>]

\* predicted rating of item i for user u: the factors' dot product (float)
Predict(m, u, i) ==
  IF u \in DOMAIN m.userFactors /\ i \in DOMAIN m.itemFactors
  THEN Float32(m.userFactors[u] * m.itemFactors[i])
  ELSE NaN32

\* variant: the library's default cold-start strategy ("nan")
TransformKeepNaN(m, tbl, rows) ==
  [k \in rows |-> Predict(m, tbl[k].user_id, tbl[k].movie_id)]

\* model.transform(test) with coldStartStrategy="drop": the prediction
\* column is joined on, then rows with a NaN prediction are dropped.
Transform(m, tbl, rows) ==
  LET all == [k \in rows |-> Predict(m, tbl[k].user_id, tbl[k].movie_id)]
      kept == IF ColdStartStrategy = "drop"
              THEN {k \in rows : ~IsNaN32(all[k])}
              ELSE rows
  IN [k \in kept |-> all[k]]

RECURSIVE SumOver(_, _)
SumOver(f, S) ==
  IF S = {} THEN 0
  ELSE LET x == CHOOSE y \in S : TRUE IN f[x] + SumOver(f, S \ {x})

\* RegressionEvaluator(metricName="rmse").evaluate(predictions):
\* sqrt(sse / n) with sse in quarter units; NaN on no rows or a NaN row.
Evaluate(preds, tbl) ==
  LET rows == DOMAIN preds
      bad == rows = {} \/ \E k \in rows : IsNaN32(preds[k])
      err == [k \in rows |->
                LET d == DoubleHalves(FloatToDouble(preds[k])) - 2 * tbl[k].rating
                IN d * d]
  IN IF bad THEN [nan |-> TRUE, sse |-> 0, n |-> Cardinality(rows)]
     ELSE [nan |-> FALSE, sse |-> SumOver(err, rows), n |-> Cardinality(rows)]

NoRmse == [nan |-> TRUE, sse |-> 0, n |-> 0]

\* ------------------------------------------------------- recommendations
\* variant: the candidates taken in ascending score order
TopKAscending(score, cands, num, asc) ==
  LET before(j, i) == \/ Float32Less(score[j], score[i])
                      \/ /\ ~Float32Less(score[i], score[j])
                         /\ IF asc THEN j < i ELSE j > i
      rank == [i \in cands |-> Cardinality({j \in cands : before(j, i)})]
      n == Min(num, Cardinality(cands))
  IN [r \in 1..n |-> CHOOSE i \in cands : rank[i] = r - 1]

\* The num best candidates by descending score; equal scores come out in
\* either id order (asc), which the engine does not fix.
TopK(score, cands, num, asc) ==
  LET before(j, i) == \/ Float32Less(score[i], score[j])
                      \/ /\ ~Float32Less(score[j], score[i])
                         /\ IF asc THEN j < i ELSE j > i
      rank == [i \in cands |-> Cardinality({j \in cands : before(j, i)})]
      n == Min(num, Cardinality(cands))
  IN [r \in 1..n |-> CHOOSE i \in cands : rank[i] = r - 1]

\* model.recommendForUserSubset(users, num)
RecommendForUserSubset(m, users, num, asc) ==
  [u \in users \cap DOMAIN m.userFactors |->
     LET score == [i \in DOMAIN m.itemFactors |-> Predict(m, u, i)]
         top == TopK(score, DOMAIN m.itemFactors, num, asc)
     IN [r \in DOMAIN top |-> [movie_id |-> top[r], rating |-> score[top[r]]]]]

\* model.recommendForItemSubset(movies, num)
RecommendForItemSubset(m, movies, num, asc) ==
  [i \in movies \cap DOMAIN m.itemFactors |->
     LET score == [u \in DOMAIN m.userFactors |-> Predict(m, u, i)]
         top == TopK(score, DOMAIN m.userFactors, num, asc)
     IN [r \in DOMAIN top |-> [user_id |-> top[r], rating |-> score[top[r]]]]]

\* model.recommendForAllUsers(num)
RecommendForAllUsers(m, num, asc) ==
  RecommendForUserSubset(m, DOMAIN m.userFactors, num, asc)

\* model.recommendForAllItems(num)
RecommendForAllItems(m, num, asc) ==
  RecommendForItemSubset(m, DOMAIN m.itemFactors, num, asc)

\* cast to array<struct<movie_id:int, rating:double>>
CastRecommendations(recs) ==
  [u \in DOMAIN recs |->
     [r \in DOMAIN recs[u] |-> [movie_id |-> recs[u][r].movie_id,
                                rating |-> FloatToDouble(recs[u][r].rating)]]]

\* distinct().limit(n): n of the distinct ids; which ones is up to the
\* engine (here: a run of n consecutive ids, MaxOffset positions tried)
LimitChoices(S, n) ==
  IF Cardinality(S) <= n THEN {S}
  ELSE {{x \in S : LET pos == Cardinality({y \in S : y <= x})
                   IN p <= pos /\ pos < p + n}
          : p \in 1..Min(MaxOffset, Cardinality(S) - n + 1)}

\* show(): the first ShowRows rows of the table
Show(tbl) ==
  IF Cardinality(DOMAIN tbl) <= ShowRows THEN tbl
  ELSE LET keep == CHOOSE K \in SUBSET (DOMAIN tbl) : Cardinality(K) = ShowRows
       IN [k \in keep |-> tbl[k]]

\* ------------------------------------------------------------------ state
VARIABLES
  pc,                  \* the statement the process executes next
  run,                 \* how many times the job has been launched
  failedAt,            \* the statement an uncaught error was raised in
  sc,                  \* the Spark session of the process
  movie_ratings,       \* store: the input collection
  user_recommendations,\* store: the output collection
  ratings, training, test, model, predictions, rmse,
  userRecs, movieRecs, users, userSubsetRecs, movies, movieSubSetRecs,
  stdout,              \* what the process printed
  rawRecs,             \* history: userRecs as recommendForAllUsers returned it
  log,                 \* history: the statements executed in this run
  writes,              \* history: the save() calls issued in this run
  atStart,             \* history: the output collection when the run began
  extWrote             \* history: another client wrote during this run

storeVars == <<movie_ratings, user_recommendations>>

dataVars == <<ratings, training, test, model, predictions, rmse>>

recVars == <<userRecs, rawRecs, movieRecs, users, userSubsetRecs, movies, movieSubSetRecs>>

histVars == <<writes, atStart, extWrote>>

vars == <<pc, run, failedAt, sc, storeVars, dataVars, recVars, stdout, log, histVars>>

\* The statements of __main__, in program order.
Steps ==
  << "init", "setLevel", "load", "split", "fit", "transform", "evaluate", "print",
     "recommendForAllUsers", "cast", "drop", "insert",
     "recommendForAllItems", "users", "recommendForUserSubset",
     "movies", "recommendForItemSubset",
     "showUserRecs", "showMovieRecs", "showUserSubsetRecs", "showMovieSubSetRecs",
     "stop" >>

StepSet == {Steps[k] : k \in DOMAIN Steps}

IndexOf(p) == CHOOSE k \in DOMAIN Steps : Steps[k] = p

\* variant: the save placed after the last recommendation call
NextPcWriteLate(p) ==
  CASE p = "recommendForAllUsers" -> "recommendForAllItems"
    [] p = "recommendForItemSubset" -> "cast"
    [] p = "insert" -> "showUserRecs"
    [] p = "stop" -> "done"
    [] OTHER -> Steps[IndexOf(p) + 1]

\* variant: sc.stop() placed before the show() calls
NextPcStopBeforeShow(p) ==
  CASE p = "recommendForItemSubset" -> "stop"
    [] p = "stop" -> "showUserRecs"
    [] p = "showMovieSubSetRecs" -> "done"
    [] OTHER -> Steps[IndexOf(p) + 1]

\* the statement that follows p; falling off the end exits the process
NextPc(p) == IF IndexOf(p) = Len(Steps) THEN "done" ELSE Steps[IndexOf(p) + 1]

NoSession == [state |-> "none", appName |-> "", executorMemory |-> "", logLevel |-> ""]

TypeOK ==
  /\ pc \in StepSet \cup {"done", "failed"}
  /\ run \in 1..MaxRuns
  /\ failedAt \in StepSet \cup {"none"}
  /\ sc.state \in {"none", "live", "stopped"}
  /\ training \subseteq DOMAIN ratings
  /\ test \subseteq DOMAIN ratings
  /\ extWrote \in BOOLEAN

\* the state of a freshly launched process
Fresh ==
  /\ pc = "init"
  /\ failedAt = "none"
  /\ sc = NoSession
  /\ ratings = << >>
  /\ training = {}
  /\ test = {}
  /\ model = NoModel
  /\ predictions = << >>
  /\ rmse = NoRmse
  /\ userRecs = << >>
  /\ rawRecs = << >>
  /\ movieRecs = << >>
  /\ users = {}
  /\ userSubsetRecs = << >>
  /\ movies = {}
  /\ movieSubSetRecs = << >>
  /\ stdout = << >>
  /\ log = << >>
  /\ writes = << >>
  /\ extWrote = FALSE

Init ==
  /\ Fresh
  /\ run = 1
  /\ movie_ratings \in Tables
  /\ user_recommendations \in {EmptyBag, StaleCollection}
  /\ atStart = user_recommendations

\* a statement completed: control moves to the next one
Advance ==
  /\ pc' = NextPc(pc)
  /\ log' = Append(log, pc)
  /\ UNCHANGED <<run, failedAt>>

\* variant: the statements wrapped in try/finally: sc.stop()
RaiseFinally ==
  /\ pc' = "failed"
  /\ failedAt' = pc
  /\ sc' = [sc EXCEPT !.state = IF sc.state = "live" THEN "stopped" ELSE sc.state]
  /\ UNCHANGED <<run, storeVars, dataVars, recVars, stdout, log, histVars>>

\* an uncaught error in the current statement ends the process there
Raise ==
  /\ pc' = "failed"
  /\ failedAt' = pc
  /\ UNCHANGED <<run, sc, storeVars, dataVars, recVars, stdout, log, histVars>>

\* sc = init_spark_context()
InitSparkContext ==
  /\ pc = "init"
  /\ sc' = [state |-> "live", appName |-> AppName,
            executorMemory |-> ExecutorMemory, logLevel |-> ""]
  /\ Advance
  /\ UNCHANGED <<storeVars, dataVars, recVars, stdout, histVars>>

\* logger = sc._jvm.org.apache.log4j; the "org" logger is set to WARN
SetLogLevel ==
  /\ pc = "setLevel"
  /\ sc' = [sc EXCEPT !.logLevel = LogLevel]
  /\ Advance
  /\ UNCHANGED <<storeVars, dataVars, recVars, stdout, histVars>>

\* df = sqlContext.read...load(); ratings = df.select(...)
Load ==
  /\ pc = "load"
  /\ ratings' = Select(movie_ratings)
  /\ Advance
  /\ UNCHANGED <<sc, storeVars, training, test, model, predictions, rmse,
                 recVars, stdout, histVars>>

\* (training, test) = ratings.randomSplit([0.8, 0.2]); no seed is given
RandomSplit ==
  /\ pc = "split"
  /\ \E seed \in 1..MaxSeed :
       /\ training' = TrainingRows(ratings, seed)
       /\ test' = TestRows(ratings, seed)
  /\ Advance
  /\ UNCHANGED <<sc, storeVars, ratings, model, predictions, rmse,
                 recVars, stdout, histVars>>

\* model = als.fit(training); fitting no ratings at all is an error
AlsFit ==
  /\ pc = "fit"
  /\ training # {}
  /\ \E o \in 1..MaxOutcome : model' = Fit(ratings, training, o)
  /\ Advance
  /\ UNCHANGED <<sc, storeVars, ratings, training, test, predictions, rmse,
                 recVars, stdout, histVars>>

\* predictions = model.transform(test)
ModelTransform ==
  /\ pc = "transform"
  /\ predictions' = Transform(model, ratings, test)
  /\ Advance
  /\ UNCHANGED <<sc, storeVars, ratings, training, test, model, rmse,
                 recVars, stdout, histVars>>

\* rmse = evaluator.evaluate(predictions)
EvaluateRmse ==
  /\ pc = "evaluate"
  /\ rmse' = Evaluate(predictions, ratings)
  /\ Advance
  /\ UNCHANGED <<sc, storeVars, ratings, training, test, model, predictions,
                 recVars, stdout, histVars>>

\* print("Root-mean-square error = " + str(rmse))
PrintRmse ==
  /\ pc = "print"
  /\ stdout' = Append(stdout, <<RmseLabel, rmse>>)
  /\ Advance
  /\ UNCHANGED <<sc, storeVars, dataVars, recVars, histVars>>

\* userRecs = model.recommendForAllUsers(10)
AllUsers ==
  /\ pc = "recommendForAllUsers"
  /\ \E asc \in BOOLEAN :
       /\ userRecs' = RecommendForAllUsers(model, NumRecs, asc)
       /\ rawRecs' = userRecs'
  /\ Advance
  /\ UNCHANGED <<sc, storeVars, dataVars, movieRecs, users, userSubsetRecs,
                 movies, movieSubSetRecs, stdout, histVars>>

\* userRecs = userRecs.withColumn('recommendations', ...cast(...))
Cast ==
  /\ pc = "cast"
  /\ userRecs' = CastRecommendations(userRecs)
  /\ Advance
  /\ UNCHANGED <<sc, storeVars, dataVars, rawRecs, movieRecs, users,
                 userSubsetRecs, movies, movieSubSetRecs, stdout, histVars>>

\* variant: no collection option, so the save goes to the collection of the uri
SaveDropDefaultCollection ==
  /\ pc = "drop"
  /\ movie_ratings' = << >>
  /\ writes' = Append(writes, [collection |-> InputCollection,
                               mode |-> "overwrite", data |-> userRecs])
  /\ Advance
  /\ UNCHANGED <<sc, user_recommendations, dataVars, recVars, stdout, atStart, extWrote>>

\* variant: mode("append"), nothing is dropped
SaveDropAppend ==
  /\ pc = "drop"
  /\ writes' = Append(writes, [collection |-> OutputCollection,
                               mode |-> "append", data |-> userRecs])
  /\ Advance
  /\ UNCHANGED <<sc, storeVars, dataVars, recVars, stdout, atStart, extWrote>>

\* userRecs.write...mode("overwrite").save(), first half: the connector
\* drops the target collection
SaveDrop ==
  /\ pc = "drop"
  /\ user_recommendations' = EmptyBag
  /\ writes' = Append(writes, [collection |-> OutputCollection,
                               mode |-> "overwrite", data |-> userRecs])
  /\ Advance
  /\ UNCHANGED <<sc, movie_ratings, dataVars, recVars, stdout, atStart, extWrote>>

\* variant: a retried insert task leaves its documents twice
SaveInsertTwice ==
  /\ pc = "insert"
  /\ user_recommendations' =
       (user_recommendations (+) Documents(userRecs)) (+) Documents(userRecs)
  /\ Advance
  /\ UNCHANGED <<sc, movie_ratings, dataVars, recVars, stdout, histVars>>

\* ...second half: the rows are inserted as new documents
SaveInsert ==
  /\ pc = "insert"
  /\ user_recommendations' = user_recommendations (+) Documents(userRecs)
  /\ Advance
  /\ UNCHANGED <<sc, movie_ratings, dataVars, recVars, stdout, histVars>>

\* movieRecs = model.recommendForAllItems(10)
AllItems ==
  /\ pc = "recommendForAllItems"
  /\ \E asc \in BOOLEAN : movieRecs' = RecommendForAllItems(model, NumRecs, asc)
  /\ Advance
  /\ UNCHANGED <<sc, storeVars, dataVars, userRecs, rawRecs, users,
                 userSubsetRecs, movies, movieSubSetRecs, stdout, histVars>>

\* users = ratings.select(als.getUserCol()).distinct().limit(3)
SelectUsers ==
  /\ pc = "users"
  /\ users' \in LimitChoices(UsersOf(ratings, DOMAIN ratings), SubsetLimit)
  /\ Advance
  /\ UNCHANGED <<sc, storeVars, dataVars, userRecs, rawRecs, movieRecs,
                 userSubsetRecs, movies, movieSubSetRecs, stdout, histVars>>

\* userSubsetRecs = model.recommendForUserSubset(users, 10)
UserSubset ==
  /\ pc = "recommendForUserSubset"
  /\ \E asc \in BOOLEAN :
       userSubsetRecs' = RecommendForUserSubset(model, users, NumRecs, asc)
  /\ Advance
  /\ UNCHANGED <<sc, storeVars, dataVars, userRecs, rawRecs, movieRecs, users,
                 movies, movieSubSetRecs, stdout, histVars>>

\* movies = ratings.select(als.getItemCol()).distinct().limit(3)
SelectMovies ==
  /\ pc = "movies"
  /\ movies' \in LimitChoices(MoviesOf(ratings, DOMAIN ratings), SubsetLimit)
  /\ Advance
  /\ UNCHANGED <<sc, storeVars, dataVars, userRecs, rawRecs, movieRecs, users,
                 userSubsetRecs, movieSubSetRecs, stdout, histVars>>

\* movieSubSetRecs = model.recommendForItemSubset(movies, 10)
ItemSubset ==
  /\ pc = "recommendForItemSubset"
  /\ \E asc \in BOOLEAN :
       movieSubSetRecs' = RecommendForItemSubset(model, movies, NumRecs, asc)
  /\ Advance
  /\ UNCHANGED <<sc, storeVars, dataVars, userRecs, rawRecs, movieRecs, users,
                 userSubsetRecs, movies, stdout, histVars>>

\* userRecs.show(); movieRecs.show(); userSubsetRecs.show(); movieSubSetRecs.show()
ShowTables ==
  /\ pc \in {"showUserRecs", "showMovieRecs", "showUserSubsetRecs", "showMovieSubSetRecs"}
  /\ stdout' = Append(stdout,
                 CASE pc = "showUserRecs" -> Show(userRecs)
                   [] pc = "showMovieRecs" -> Show(movieRecs)
                   [] pc = "showUserSubsetRecs" -> Show(userSubsetRecs)
                   [] pc = "showMovieSubSetRecs" -> Show(movieSubSetRecs))
  /\ Advance
  /\ UNCHANGED <<sc, storeVars, dataVars, recVars, histVars>>

\* sc.stop()
Stop ==
  /\ pc = "stop"
  /\ sc' = [sc EXCEPT !.state = "stopped"]
  /\ Advance
  /\ UNCHANGED <<storeVars, dataVars, recVars, stdout, histVars>>

\* any statement before sc.stop() can raise (store unreachable, engine
\* failure, ...); nothing catches it
Fail ==
  /\ pc \in StepSet \ {"stop"}
  /\ Raise

\* the job is launched again as a new process
Relaunch ==
  /\ pc \in {"done", "failed"}
  /\ run < MaxRuns
  /\ run' = run + 1
  /\ pc' = "init"
  /\ failedAt' = "none"
  /\ sc' = NoSession
  /\ ratings' = << >>
  /\ training' = {}
  /\ test' = {}
  /\ model' = NoModel
  /\ predictions' = << >>
  /\ rmse' = NoRmse
  /\ userRecs' = << >>
  /\ rawRecs' = << >>
  /\ movieRecs' = << >>
  /\ users' = {}
  /\ userSubsetRecs' = << >>
  /\ movies' = {}
  /\ movieSubSetRecs' = << >>
  /\ stdout' = << >>
  /\ log' = << >>
  /\ writes' = << >>
  /\ extWrote' = FALSE
  /\ atStart' = user_recommendations
  /\ UNCHANGED storeVars

\* another client of the store overwrites the output collection while the
\* job is running
ExternalWrite ==
  /\ pc \in StepSet
  /\ user_recommendations' = ExternalCollection
  /\ extWrote' = TRUE
  /\ UNCHANGED <<pc, run, failedAt, sc, movie_ratings, dataVars, recVars,
                 stdout, log, writes, atStart>>

\* one statement of the running process
RunStep ==
  \/ InitSparkContext
  \/ SetLogLevel
  \/ Load
  \/ RandomSplit
  \/ AlsFit
  \/ ModelTransform
  \/ EvaluateRmse
  \/ PrintRmse
  \/ AllUsers
  \/ Cast
  \/ SaveDrop
  \/ SaveInsert
  \/ AllItems
  \/ SelectUsers
  \/ UserSubset
  \/ SelectMovies
  \/ ItemSubset
  \/ ShowTables
  \/ Stop
  \/ Fail

\* the job alone on its collection, launched up to MaxRuns times
Next == RunStep \/ Relaunch

Spec == Init /\ [][Next]_vars

\* one launch of the job with another client writing to the collection
NextShared == RunStep \/ ExternalWrite

SpecShared == Init /\ [][NextShared]_vars

\* ----------------------------------------------------------------- claims
Range(q) == {q[k] : k \in DOMAIN q}

\* the statement st has completed in this run
Done(st) == st \in Range(log)

IsPrefix(a, b) == Len(a) <= Len(b) /\ \A k \in DOMAIN a : a[k] = b[k]

\* the table the run computed for the store: the cast all-users table
ResultDocuments == Documents(CastRecommendations(rawRecs))

\* the pair (u, i) has a rating record in the loaded ratings
Rated(u, i) == \E k \in DOMAIN ratings : ratings[k].user_id = u /\ ratings[k].movie_id = i

SortedDescending64(list) ==
  \A r \in 1..(Len(list) - 1) : ~DoubleLess(list[r].rating, list[r + 1].rating)

SortedDescending32(list) ==
  \A r \in 1..(Len(list) - 1) : ~Float32Less(list[r].rating, list[r + 1].rating)

\* C1: in every run at most one save is issued (exactly one in a run that
\* completes); its target is user_recommendations and its payload is the
\* cast result of recommendForAllUsers(10); the output collection only ever
\* holds what it held at launch, nothing (mid-save) or that payload, and
\* the input collection movie_ratings is never changed.
C1_State ==
  /\ Len(writes) <= 1
  /\ pc = "done" => Len(writes) = 1
  /\ \A k \in DOMAIN writes :
       /\ writes[k].collection = OutputCollection
       /\ writes[k].mode = "overwrite"
       /\ writes[k].data = CastRecommendations(rawRecs)
  /\ pc = "cast" =>
       \E asc \in BOOLEAN : rawRecs = RecommendForAllUsers(model, NumRecs, asc)
  /\ Done("recommendForAllUsers") => DOMAIN rawRecs = DOMAIN model.userFactors
  /\ user_recommendations \in {atStart, EmptyBag, ResultDocuments}
  /\ Done("load") => ratings = Select(movie_ratings)

C1_OnlyAllUsersWritten == [](C1_State) /\ [][movie_ratings' = movie_ratings]_vars

C1_Witness ==
  /\ pc = "done"
  /\ Len(writes) = 1
  /\ movieRecs # << >>
  /\ userSubsetRecs # << >>
  /\ movieSubSetRecs # << >>
  /\ user_recommendations = ResultDocuments
  /\ user_recommendations # atStart

\* C2 (as claimed): all four recommendation calls precede the write, i.e.
\* the coarse steps of a run occur in the claimed order.
ClaimedOrder ==
  << "init", "load", "split", "fit", "evaluate",
     "recommendForAllUsers", "recommendForAllItems",
     "recommendForUserSubset", "recommendForItemSubset",
     "drop", "insert", "stop" >>

InClaimedOrder(st) == st \in Range(ClaimedOrder)

C2_AllRecsBeforeWrite == IsPrefix(SelectSeq(log, InClaimedOrder), ClaimedOrder)

\* C2 (amended): the statements run one after another, each once, in program
\* order: session, load, split, fit, evaluate, print, recommendForAllUsers,
\* cast, the write, then recommendForAllItems and the two subset calls, the
\* four show calls and sc.stop() last; only recommendForAllUsers precedes
\* the write.
ProgramOrder ==
  << "init", "setLevel", "load", "split", "fit", "transform", "evaluate", "print",
     "recommendForAllUsers", "cast", "drop", "insert",
     "recommendForAllItems", "users", "recommendForUserSubset",
     "movies", "recommendForItemSubset",
     "showUserRecs", "showMovieRecs", "showUserSubsetRecs", "showMovieSubSetRecs",
     "stop" >>

C2_ProgramOrder ==
  /\ IsPrefix(log, ProgramOrder)
  /\ pc = "done" <=> log = ProgramOrder
  /\ sc.state = "stopped" <=> pc = "done"
  /\ Done("insert") /\ ~Done("recommendForAllItems")
       => Done("recommendForAllUsers") /\ ~Done("recommendForUserSubset")
            /\ ~Done("recommendForItemSubset")

C2_Witness ==
  /\ pc = "recommendForAllItems"
  /\ Done("insert")
  /\ user_recommendations = ResultDocuments
  /\ movieRecs = << >>

\* C3: a statement that raises ends the process there: the statements
\* executed are exactly those before it, each once; sc.stop() has not run
\* and never runs in that process, the session stays as it was; the only
\* thing that follows is a new launch of the job.
C3_State ==
  pc = "failed" =>
    /\ failedAt \in StepSet \ {"stop"}
    /\ log = SubSeq(ProgramOrder, 1, Len(log))
    /\ Len(log) < Len(ProgramOrder)
    /\ ProgramOrder[Len(log) + 1] = failedAt
    /\ ~Done("stop")
    /\ sc.state # "stopped"
    /\ sc.state = "live" <=> failedAt # "init"

C3_FailureTerminates ==
  [](C3_State) /\ [][pc = "failed" => pc' = "init" /\ run' = run + 1]_vars

C3_Witness ==
  /\ pc = "failed"
  /\ failedAt = "showMovieRecs"
  /\ sc.state = "live"
  /\ Len(stdout) = 2

\* C4: once the save of a run has completed the output collection holds
\* exactly one copy of each document of the written table and nothing else,
\* whatever it held before (also another run's result).
C4_Overwrite == Done("insert") => user_recommendations = ResultDocuments

\* second run completed on top of a different, non-empty result of the first
C4_Witness ==
  /\ run = 2
  /\ pc = "done"
  /\ atStart \notin {EmptyBag, StaleCollection}
  /\ BagToSet(atStart) \ BagToSet(user_recommendations) # {}
  /\ user_recommendations # EmptyBag

\* C5: every list of the all-users table has at most 10 entries in
\* descending order of predicted rating, before the cast, after it and in
\* the store; the cast keeps every list's length and its items' order.
C5_TopTenDescending ==
  /\ Done("recommendForAllUsers") =>
       \A u \in DOMAIN rawRecs :
         Len(rawRecs[u]) <= NumRecs /\ SortedDescending32(rawRecs[u])
  /\ Done("cast") =>
       /\ DOMAIN userRecs = DOMAIN rawRecs
       /\ \A u \in DOMAIN userRecs :
            /\ Len(userRecs[u]) = Len(rawRecs[u])
            /\ \A r \in DOMAIN userRecs[u] :
                 userRecs[u][r].movie_id = rawRecs[u][r].movie_id
            /\ SortedDescending64(userRecs[u])
  /\ Done("insert") =>
       \A doc \in BagToSet(user_recommendations) :
         /\ Len(doc.recommendations) <= NumRecs
         /\ SortedDescending64(doc.recommendations)

\* more than 10 candidate movies, a written list cut to 10, really ordered
C5_Witness ==
  /\ Done("insert")
  /\ Cardinality(DOMAIN model.itemFactors) > NumRecs
  /\ \E doc \in BagToSet(user_recommendations) :
       /\ Len(doc.recommendations) = NumRecs
       /\ DoubleLess(doc.recommendations[NumRecs].rating, doc.recommendations[1].rating)
       /\ doc.recommendations[NumRecs].rating.s = 1

\* C6 (as claimed): no list holds a user/item pair that is rated in the
\* loaded ratings.
C6_NoRatedPairs ==
  /\ \A u \in DOMAIN userRecs : \A r \in DOMAIN userRecs[u] :
       ~Rated(u, userRecs[u][r].movie_id)
  /\ \A i \in DOMAIN movieRecs : \A r \in DOMAIN movieRecs[i] :
       ~Rated(movieRecs[i][r].user_id, i)
  /\ \A u \in DOMAIN userSubsetRecs : \A r \in DOMAIN userSubsetRecs[u] :
       ~Rated(u, userSubsetRecs[u][r].movie_id)
  /\ \A i \in DOMAIN movieSubSetRecs : \A r \in DOMAIN movieSubSetRecs[i] :
       ~Rated(movieSubSetRecs[i][r].user_id, i)

\* C6 (amended): every subject of a list and every entry of a list is a
\* user or item of the training subset (rated pairs are not filtered out);
\* the subset tables only have subjects of the chosen 3.
C6_OnlyTrainedIds ==
  LET trainedUsers == UsersOf(ratings, training)
      trainedMovies == MoviesOf(ratings, training)
  IN /\ \A u \in DOMAIN userRecs :
          /\ u \in trainedUsers
          /\ \A r \in DOMAIN userRecs[u] : userRecs[u][r].movie_id \in trainedMovies
     /\ \A i \in DOMAIN movieRecs :
          /\ i \in trainedMovies
          /\ \A r \in DOMAIN movieRecs[i] : movieRecs[i][r].user_id \in trainedUsers
     /\ \A u \in DOMAIN userSubsetRecs :
          /\ u \in trainedUsers \cap users
          /\ \A r \in DOMAIN userSubsetRecs[u] :
               userSubsetRecs[u][r].movie_id \in trainedMovies
     /\ \A i \in DOMAIN movieSubSetRecs :
          /\ i \in trainedMovies \cap movies
          /\ \A r \in DOMAIN movieSubSetRecs[i] :
               movieSubSetRecs[i][r].user_id \in trainedUsers

\* all four tables computed; a list with a rated and an unrated pair; an
\* item of the loaded ratings that no list may name
C6_Witness ==
  /\ Done("recommendForItemSubset")
  /\ movieSubSetRecs # << >>
  /\ userSubsetRecs # << >>
  /\ \E u \in DOMAIN userRecs :
       /\ \E r \in DOMAIN userRecs[u] : Rated(u, userRecs[u][r].movie_id)
       /\ \E r \in DOMAIN userRecs[u] : ~Rated(u, userRecs[u][r].movie_id)
  /\ MoviesOf(ratings, test) \ MoviesOf(ratings, training) # {}

\* C7: the printed RMSE is computed over exactly the test rows whose user
\* and whose movie both occur in the training subset; it is NaN only when
\* there is no such row.
ScoredRows ==
  {k \in test : /\ \E j \in training : ratings[j].user_id = ratings[k].user_id
                /\ \E j \in training : ratings[j].movie_id = ratings[k].movie_id}

SquaredError(k) ==
  LET d == model.userFactors[ratings[k].user_id] * model.itemFactors[ratings[k].movie_id]
             - 2 * ratings[k].rating
  IN d * d

C7_ColdStartDropped ==
  Done("print") =>
    /\ DOMAIN predictions = ScoredRows
    /\ rmse.n = Cardinality(ScoredRows)
    /\ rmse.nan <=> ScoredRows = {}
    /\ rmse.sse = SumOver([k \in ScoredRows |-> SquaredError(k)], ScoredRows)
    /\ stdout[1] = <<RmseLabel, rmse>>

\* some test rows are scored, others are cold and left out
C7_Witness ==
  /\ Done("print")
  /\ ScoredRows # {}
  /\ test \ ScoredRows # {}
  /\ rmse.sse > 0
  /\ ~rmse.nan

\* C8: training and test are disjoint and together hold every loaded row;
\* the model has factors for exactly the users and movies of the training
\* rows, and only test rows are scored.
C8_SplitPartition ==
  /\ training \cap test = {}
  /\ Done("split") => training \cup test = DOMAIN ratings
  /\ Done("fit") =>
       /\ DOMAIN model.userFactors = UsersOf(ratings, training)
       /\ DOMAIN model.itemFactors = MoviesOf(ratings, training)
  /\ DOMAIN predictions \subseteq test
  /\ rmse.n <= Cardinality(test)

C8_Witness ==
  /\ Done("evaluate")
  /\ training # {}
  /\ test # {}
  /\ UsersOf(ratings, test) \ UsersOf(ratings, training) # {}
  /\ rmse.n > 0

\* C9: with nobody else writing during the run, the output collection
\* after shutdown is the run's result set; with another writer there are
\* interleavings that leave something else (C9_Witness).
C9_ExclusiveOwnership ==
  pc = "done" /\ ~extWrote => user_recommendations = ResultDocuments

\* the other client wrote between the drop and the insert of the save: the
\* collection ends up holding its document next to the run's
C9_Witness ==
  /\ pc = "done"
  /\ extWrote
  /\ user_recommendations # ResultDocuments
  /\ user_recommendations # ExternalCollection
  /\ ResultDocuments # EmptyBag

\* C10: a run that fails in a statement up to and including the cast
\* leaves the output collection as it was at launch; a run that fails in a
\* statement after the save leaves it replaced by the new result set, with
\* the session not stopped.
C10_FailureAndStore ==
  pc = "failed" =>
    /\ IndexOf(failedAt) <= IndexOf("cast") => user_recommendations = atStart
    /\ IndexOf(failedAt) > IndexOf("insert") =>
         /\ user_recommendations = ResultDocuments
         /\ sc.state = "live"

C10_Witness ==
  /\ pc = "failed"
  /\ failedAt = "recommendForAllItems"
  /\ atStart = StaleCollection
  /\ user_recommendations # atStart
  /\ user_recommendations # EmptyBag
  /\ sc.state = "live"

====
